---- MODULE Spec2Model ----
(***************************************************************************)
(* Falling-sand engine of src/src/lib.rs: World::step, World::paint, the   *)
(* pointer handlers and the animation-frame callback installed by start(). *)
(*                                                                         *)
(* The grid is grid[y][x] as in the source.  WIDTH and HEIGHT are the      *)
(* source's constants scaled down (200 x 150 in the source).  Every        *)
(* Math.random() draw is a nondeterministic choice.  Integers are          *)
(* mathematical: all inputs are far below the range where isize wraps.     *)
(***************************************************************************)
EXTENDS Integers, Sequences, FiniteSets, TLC

\* ------------------------------------------------------------ dimensions
WIDTH == 3

HEIGHT == 3

CELL_SIZE == 4

\* Largest brush size get_brush_size() returns in the model.
MaxBrush == 4

\* Largest number of Sand cells an initial grid of the step specifications holds
\* (above a full bottom row: one fewer).
MaxSand == 3

\* Saturation point of the step() call counter.
MaxTicks == HEIGHT + 1

\* Saturation point of the paint() call counter.
MaxPaints == 2

Cols == 0 .. (WIDTH - 1)

RowIdx == 0 .. (HEIGHT - 1)

\* Coordinates are <<x, y>>.
Cells == Cols \X RowIdx

Min(a, b) == IF a < b THEN a ELSE b

\* ------------------------------------------------------------ grid
\* World::new
EmptyGrid == [y \in RowIdx |-> [x \in Cols |-> "Empty"]]

\* The grid whose Sand cells are exactly S.
GridOf(S) == [y \in RowIdx |-> [x \in Cols |-> IF <<x, y>> \in S THEN "Sand" ELSE "Empty"]]

SandCells(g) == {c \in Cells : g[c[2]][c[1]] = "Sand"}

SandCount(g) == Cardinality(SandCells(g))

\* An indexing grid[y][x]; an index outside the array is a panic in the source.
At(g, c) == IF c \in Cells THEN g[c[2]][c[1]] ELSE "OutOfRange"

ZeroDrop == [c \in Cells |-> 0]

ZeroMoves == [c \in Cells |-> 0]

VARIABLES
  grid,       \* WORLD.grid
  mouseDown,  \* MOUSE_DOWN
  event,      \* the host's pointer and brush state a handler reads
  pc,         \* "idle" | "shuffle" | "cells" | "returned": position of the frame callback
  frame,      \* 0: no callback running; 1, 2: which step() call of the callback
  xs,         \* step's column index buffer (a sequence; xs[k+1] is the source's xs[k])
  ri,         \* position of the row loop in Rows
  ci,         \* position of the column loop in xs
  start,      \* history: the grid at the entry of the current step() call
  drop,       \* history: rows descended in this step() call by the grain now at a cell
  moves,      \* history: moves made in this step() call by the grain now at a cell
  listener,   \* history: the pointer listener that ran last ("none" before the first)
  gate,       \* history: the last of mousedown, mouseup, mouseleave that ran ("none")
  ev,         \* history: what the last action did
  touched,    \* history: the grid coordinates the last action indexed
  panicked,   \* an index out of range has happened
  ticks,      \* history: step() calls returned (saturating), counted by SpecFall
  paints      \* history: paint() calls made (saturating), counted by SpecPaint and SpecPile

vars == <<grid, mouseDown, event, pc, frame, xs, ri, ci, start, drop, moves, listener,
          gate, ev, touched, panicked, ticks, paints>>

\* ------------------------------------------------------------ step
\* let mut xs: Vec<usize> = (0..WIDTH).collect();
Identity == [k \in 1 .. WIDTH |-> k - 1]

\* Fault variant of Swap: xs[i] = xs[j], the other half of the swap missing.
SwapCopy(s, i, j) == [s EXCEPT ![i + 1] = s[j + 1]]

\* xs.swap(i, j), indices from 0
Swap(s, i, j) == [s EXCEPT ![i + 1] = s[j + 1], ![j + 1] = s[i + 1]]

\* (Math::random() * (i as f64 + 1.0)).floor() as usize, Math::random() in [0, 1)
RandomIndex(i) == 0 .. i

\* for i in (1..WIDTH).rev() { j = ...; xs.swap(i, j) }: every result of the loop from i down
RECURSIVE Shuffles(_, _)
Shuffles(s, i) ==
  IF i < 1 THEN {s}
  ELSE UNION {Shuffles(Swap(s, i, j), i - 1) : j \in RandomIndex(i)}

\* Fault variant of Rows: the rows top-down.
RowsAscending == [k \in 1 .. (HEIGHT - 1) |-> k - 1]

\* Fault variant of Rows: the range shifted by one, the bottom row included.
RowsWithBottom == [k \in 1 .. (HEIGHT - 1) |-> HEIGHT - k]

\* for y in (0..HEIGHT-1).rev()
Rows == [k \in 1 .. (HEIGHT - 1) |-> HEIGHT - 1 - k]

\* Fault variant of DiagInBounds: the test nx >= 0 missing.
DiagInBoundsNoLeft(nx, ny) == nx < WIDTH /\ ny < HEIGHT

\* Fault variant of DiagInBounds: nx > 0 for nx >= 0.
DiagInBoundsStrict(nx, ny) == nx > 0 /\ nx < WIDTH /\ ny < HEIGHT

\* nx >= 0 && nx < WIDTH as isize && ny < HEIGHT as isize
DiagInBounds(nx, ny) == nx >= 0 /\ nx < WIDTH /\ ny < HEIGHT

\* nx >= 0 && nx < WIDTH as isize
SideInBounds(nx) == nx >= 0 /\ nx < WIDTH

\* Fault variant of Dirs: the first direction points up.
DirsUp(swapDirs) ==
  IF swapDirs THEN << <<1, 1>>, <<-1, -1>> >> ELSE << <<-1, -1>>, <<1, 1>> >>

\* let mut dirs = [(-1, 1), (1, 1)]; if Math::random() < 0.5 { dirs.swap(0, 1) }
Dirs(swapDirs) ==
  IF swapDirs THEN << <<1, 1>>, <<-1, 1>> >> ELSE << <<-1, 1>>, <<1, 1>> >>

\* let mut sides = [-1, 1]; if Math::random() < 0.5 { sides.swap(0, 1) }
Sides(swapSides) == IF swapSides THEN <<1, -1>> ELSE <<-1, 1>>

\* Fault variant of Move: the source is not cleared.
MoveCopy(g, from, to) == [g EXCEPT ![to[2]][to[1]] = "Sand"]

\* self.grid[ty][tx] = Cell::Sand; self.grid[y][x] = Cell::Empty;
Move(g, from, to) ==
  [[g EXCEPT ![to[2]][to[1]] = "Sand"] EXCEPT ![from[2]][from[1]] = "Empty"]

\* Fault variant of FirstFree: the loop leaves after its first candidate.
FirstFreeFirstOnly(g, cands, ok) ==
  LET c1 == cands[1]
      free1 == ok[1] /\ At(g, c1) = "Empty"
  IN  [found |-> free1,
       dest |-> c1,
       indexed |-> IF ok[1] THEN {c1} ELSE {}]

\* The first candidate of the sequence cands (two of them) that passes the bounds
\* guard ok and is Empty; the candidates indexed on the way.
FirstFree(g, cands, ok) ==
  LET c1 == cands[1]
      c2 == cands[2]
      free1 == ok[1] /\ At(g, c1) = "Empty"
      free2 == ok[2] /\ At(g, c2) = "Empty"
  IN  [found |-> free1 \/ free2,
       dest |-> IF free1 THEN c1 ELSE c2,
       indexed |-> (IF ok[1] THEN {c1} ELSE {}) \cup
                   (IF ~free1 /\ ok[2] THEN {c2} ELSE {})]

\* Fault variant of CellOutcome: the diagonals are tried before the cell below.
CellOutcomeDiagFirst(g, x, y, swapDirs, roll, swapSides) ==
  LET here == <<x, y>>
      below == <<x, y + 1>>
      dirs == Dirs(swapDirs)
      dcands == [k \in 1 .. 2 |-> <<x + dirs[k][1], y + dirs[k][2]>>]
      dok == [k \in 1 .. 2 |-> DiagInBounds(dcands[k][1], dcands[k][2])]
      diag == FirstFree(g, dcands, dok)
  IN  IF At(g, here) # "Sand"
        THEN [kind |-> "skip", dest |-> here, indexed |-> {here}]
      ELSE IF diag.found
        THEN [kind |-> "diag", dest |-> diag.dest, indexed |-> {here} \cup diag.indexed]
      ELSE IF At(g, below) = "Empty"
        THEN [kind |-> "down", dest |-> below,
              indexed |-> {here, below} \cup diag.indexed]
      ELSE [kind |-> "stay", dest |-> here, indexed |-> {here, below} \cup diag.indexed]

\* The body of `for &x in &xs` for the cell (x, y), with the three random draws:
\* swapDirs (Math::random() < 0.5 at the diagonals), roll (Math::random() < 0.05),
\* swapSides (Math::random() < 0.5 at the lateral roll).
CellOutcome(g, x, y, swapDirs, roll, swapSides) ==
  LET here == <<x, y>>
      below == <<x, y + 1>>
      dirs == Dirs(swapDirs)
      dcands == [k \in 1 .. 2 |-> <<x + dirs[k][1], y + dirs[k][2]>>]
      dok == [k \in 1 .. 2 |-> DiagInBounds(dcands[k][1], dcands[k][2])]
      diag == FirstFree(g, dcands, dok)
      sides == Sides(swapSides)
      scands == [k \in 1 .. 2 |-> <<x + sides[k], y>>]
      sok == [k \in 1 .. 2 |-> SideInBounds(scands[k][1])]
      side == FirstFree(g, scands, sok)
  IN  IF At(g, here) # "Sand"
        THEN [kind |-> "skip", dest |-> here, indexed |-> {here}]
      ELSE IF At(g, below) = "Empty"
        THEN [kind |-> "down", dest |-> below, indexed |-> {here, below}]
      ELSE IF diag.found
        THEN [kind |-> "diag", dest |-> diag.dest,
              indexed |-> {here, below} \cup diag.indexed]
      ELSE IF roll /\ side.found
        THEN [kind |-> "roll", dest |-> side.dest,
              indexed |-> {here, below} \cup diag.indexed \cup side.indexed]
      ELSE [kind |-> "stay", dest |-> here,
            indexed |-> {here, below} \cup diag.indexed \cup
                        (IF roll THEN side.indexed ELSE {})]

\* The entry of a step() call, the f-th of the running frame callback.
StepEnter(f) ==
  /\ frame' = f
  /\ xs' = Identity
  /\ ri' = 1
  /\ ci' = 1
  /\ pc' = "shuffle"
  /\ start' = grid
  /\ drop' = ZeroDrop
  /\ moves' = ZeroMoves
  /\ ev' = [kind |-> "enter"]
  /\ touched' = {}
  /\ UNCHANGED <<grid, mouseDown, event, listener, gate, panicked>>

\* The locals of step() after it has returned: xs is dropped, the histories of the
\* call are over.
StepLeave ==
  /\ xs' = Identity
  /\ ri' = 1
  /\ ci' = 1
  /\ start' = grid
  /\ drop' = ZeroDrop
  /\ moves' = ZeroMoves
  /\ touched' = {}

\* The animation-frame callback starts: the first w.step().
Frame ==
  /\ pc = "idle"
  /\ StepEnter(1)

\* The Fisher-Yates loop at the head of a row.
ShuffleRow ==
  /\ pc = "shuffle"
  /\ \E s \in Shuffles(xs, WIDTH - 1) : xs' = s
  /\ pc' = "cells"
  /\ ev' = [kind |-> "shuffle"]
  /\ touched' = {}
  /\ UNCHANGED <<grid, mouseDown, event, frame, ri, ci, start, drop, moves, listener,
                 gate, panicked>>

\* The Math::random() draws the cell (x, y) makes, as <<swapDirs, roll, swapSides>>:
\* none for a cell that is not Sand or falls straight down (line 57's continue comes
\* before the first draw); a draw the code does not reach is FALSE.
Draws(g, x, y) ==
  IF At(g, <<x, y>>) # "Sand" \/ At(g, <<x, y + 1>>) = "Empty"
    THEN {<<FALSE, FALSE, FALSE>>}
    ELSE {d \in BOOLEAN \X BOOLEAN \X BOOLEAN : d[2] \/ ~d[3]}

\* One iteration of `for &x in &xs`, and the loop bookkeeping after it.
ProcessCell ==
  /\ pc = "cells"
  /\ \E d \in Draws(grid, xs[ci], Rows[ri]) :
       LET x == xs[ci]
           y == Rows[ri]
           out == CellOutcome(grid, x, y, d[1], d[2], d[3])
           fault == ~(out.indexed \subseteq Cells)
           moved == ~fault /\ out.kind \in {"down", "diag", "roll"}
       IN  /\ grid' = IF moved THEN Move(grid, <<x, y>>, out.dest) ELSE grid
           /\ drop' = IF moved
                        THEN [drop EXCEPT ![out.dest] = drop[<<x, y>>] + (out.dest[2] - y),
                                          ![<<x, y>>] = 0]
                        ELSE drop
           /\ moves' = IF moved
                         THEN [moves EXCEPT ![out.dest] = moves[<<x, y>>] + 1,
                                            ![<<x, y>>] = 0]
                         ELSE moves
           /\ ev' = [kind |-> out.kind, x |-> x, y |-> y, dest |-> out.dest]
           /\ touched' = out.indexed
           /\ panicked' = (panicked \/ fault)
  /\ IF ci < WIDTH
       THEN ci' = ci + 1 /\ UNCHANGED <<ri, pc>>
       ELSE /\ ci' = 1
            /\ IF ri < HEIGHT - 1
                 THEN ri' = ri + 1 /\ pc' = "shuffle"
                 ELSE ri' = ri /\ pc' = "returned"
  /\ UNCHANGED <<mouseDown, event, frame, xs, start, listener, gate>>

\* The first step() has returned: the second w.step().
SecondStep ==
  /\ pc = "returned"
  /\ frame = 1
  /\ StepEnter(2)

\* Fault variant of Render: render() may follow the first step() already.
RenderAfterFirst ==
  /\ pc = "returned"
  /\ frame \in {1, 2}
  /\ pc' = "idle"
  /\ frame' = 0
  /\ ev' = [kind |-> "render"]
  /\ StepLeave
  /\ UNCHANGED <<grid, mouseDown, event, listener, gate, panicked>>

\* The second step() has returned: render(), which only reads the grid, and the
\* callback ends.
Render ==
  /\ pc = "returned"
  /\ frame = 2
  /\ pc' = "idle"
  /\ frame' = 0
  /\ ev' = [kind |-> "render"]
  /\ StepLeave
  /\ UNCHANGED <<grid, mouseDown, event, listener, gate, panicked>>

\* A direct call of World::step (it is pub), outside any frame callback.
StepCall ==
  /\ pc = "idle"
  /\ StepEnter(0)

\* The direct call returns to its caller.
StepReturn ==
  /\ pc = "returned"
  /\ frame = 0
  /\ pc' = "idle"
  /\ ev' = [kind |-> "return"]
  /\ StepLeave
  /\ UNCHANGED <<grid, mouseDown, event, frame, listener, gate, panicked>>

\* ------------------------------------------------------------ paint
\* `v as usize` of an f64 v (integral here): the cast saturates, a negative v is 0.
AsUsize(v) == IF v < 0 THEN 0 ELSE v

\* ((event.client_x() as f64 - rect.left()) * scale_x) as usize / CELL_SIZE, of the
\* pointer offset p in canvas pixels (the product inside the cast).
GridCoord(p) == AsUsize(p) \div CELL_SIZE

\* if event.buttons() == 2 || event.button() == 2 { Tool::Erase } else { Tool::Sand }
ToolOf(e) == IF e.buttons = 2 \/ e.button = 2 THEN "Erase" ELSE "Sand"

\* Fault variant of R2Q: the radius is brush, not brush / 2.
R2QFull(brush) == 4 * brush * brush

\* r2 = (brush / 2)^2, in quarters (all values are multiples of 1/4, exact in f64)
R2Q(brush) == brush * brush

\* Fault variant of Dist2Q: the + 0.5 missing.
Dist2QNoHalf(dx, dy) == (2 * dx) * (2 * dx) + (2 * dy) * (2 * dy)

\* dist2 = (dx + 0.5)^2 + (dy + 0.5)^2, in quarters
Dist2Q(dx, dy) == (2 * dx + 1) * (2 * dx + 1) + (2 * dy + 1) * (2 * dy + 1)

\* Fault variant of PaintInBounds: the test nx >= 0 missing.
PaintInBoundsNoLeft(nx, ny) == ny >= 0 /\ nx < WIDTH /\ ny < HEIGHT

\* nx >= 0 && ny >= 0 && (nx as usize) < WIDTH && (ny as usize) < HEIGHT
PaintInBounds(nx, ny) == nx >= 0 /\ ny >= 0 /\ nx < WIDTH /\ ny < HEIGHT

\* The coordinates the two loops of paint assign: offsets dy, dx in
\* -brush ..= brush that pass the bounds guard and the disc test.
PaintWrites(x, y, brush) ==
  {<<x + d[1], y + d[2]>> :
     d \in {o \in (-brush .. brush) \X (-brush .. brush) :
              /\ PaintInBounds(x + o[1], y + o[2])
              /\ Dist2Q(o[1], o[2]) <= R2Q(brush)}}

\* Fault variant of WriteCell: the cell is flipped.
WriteCellToggle(old, tool) == IF old = "Sand" THEN "Empty" ELSE "Sand"

\* Fault variant of WriteCell: the tool is ignored.
WriteCellSand(old, tool) == "Sand"

\* self.grid[ny][nx] = match tool { Tool::Sand => Cell::Sand, Tool::Erase => Cell::Empty }
\* (old is the value the assignment overwrites)
WriteCell(old, tool) == IF tool = "Sand" THEN "Sand" ELSE "Empty"

\* World::paint
PaintGrid(g, x, y, brush, tool) ==
  LET W == PaintWrites(x, y, brush)
  IN  [yy \in RowIdx |-> [xx \in Cols |->
         IF <<xx, yy>> \in W THEN WriteCell(g[yy][xx], tool) ELSE g[yy][xx]]]

\* paint_at_mouse: the centre and the tool from the event, get_brush_size(), paint.
PaintAtMouse ==
  LET x == GridCoord(event.px)
      y == GridCoord(event.py)
      tool == ToolOf(event)
      W == PaintWrites(x, y, event.brush)
  IN  /\ grid' = PaintGrid(grid, x, y, event.brush, tool)
      /\ start' = grid'
      /\ touched' = W
      /\ panicked' = (panicked \/ ~(W \subseteq Cells))
      /\ ev' = [kind |-> "paint", x |-> x, y |-> y, brush |-> event.brush, tool |-> tool]

\* The mousedown listener.  A listener runs between callbacks, never inside one.
MouseDown ==
  /\ pc = "idle"
  /\ mouseDown' = TRUE
  /\ PaintAtMouse
  /\ listener' = "mousedown"
  /\ gate' = "mousedown"
  /\ UNCHANGED <<event, pc, frame, xs, ri, ci, drop, moves>>

\* The mousemove listener.
MouseMove ==
  /\ pc = "idle"
  /\ IF mouseDown
       THEN PaintAtMouse
       ELSE /\ ev' = [kind |-> "ignored"]
            /\ touched' = {}
            /\ UNCHANGED <<grid, start, panicked>>
  /\ listener' = "mousemove"
  /\ UNCHANGED <<mouseDown, event, pc, frame, xs, ri, ci, drop, moves, gate>>

\* The mouseup listener.
MouseUp ==
  /\ pc = "idle"
  /\ mouseDown' = FALSE
  /\ listener' = "mouseup"
  /\ gate' = "mouseup"
  /\ ev' = [kind |-> "up"]
  /\ touched' = {}
  /\ UNCHANGED <<grid, event, pc, frame, xs, ri, ci, start, drop, moves, panicked>>

\* Fault variant of MouseLeave: the closure is not registered for mouseleave.
MouseLeaveKeepsDown ==
  /\ pc = "idle"
  /\ listener' = "mouseleave"
  /\ gate' = "mouseleave"
  /\ ev' = [kind |-> "leave"]
  /\ touched' = {}
  /\ UNCHANGED <<grid, mouseDown, event, pc, frame, xs, ri, ci, start, drop, moves,
                 panicked>>

\* The mouseleave listener (the same closure as mouseup).
MouseLeave ==
  /\ pc = "idle"
  /\ mouseDown' = FALSE
  /\ listener' = "mouseleave"
  /\ gate' = "mouseleave"
  /\ ev' = [kind |-> "leave"]
  /\ touched' = {}
  /\ UNCHANGED <<grid, event, pc, frame, xs, ri, ci, start, drop, moves, panicked>>

\* Pointer offsets in canvas pixels: left of (above) the canvas, and inside each
\* cell from column (row) 0 to one beyond n.
PointerOffsets(n) == {-5} \cup {CELL_SIZE * c + 1 : c \in 0 .. (n + 1)}

\* (buttons, button) of a MouseEvent: primary held, secondary held, secondary pressed.
ButtonStates == {<<1, 0>>, <<2, 0>>, <<2, 2>>}

Events ==
  {[px |-> p[1], py |-> p[2], brush |-> b, buttons |-> k[1], button |-> k[2]] :
     p \in PointerOffsets(WIDTH) \X PointerOffsets(HEIGHT),
     b \in 0 .. MaxBrush,
     k \in ButtonStates}

\* The host's pointer, buttons and brush slider change, to an event of E.
HostInput(E) ==
  /\ pc = "idle"
  /\ \E e \in E : event' = e
  /\ ev' = [kind |-> "input"]
  /\ touched' = {}
  /\ UNCHANGED <<grid, mouseDown, pc, frame, xs, ri, ci, start, drop, moves, listener,
                 gate, panicked>>

\* ------------------------------------------------------------ specifications
NoEvent == [px |-> 0, py |-> 0, brush |-> 0, buttons |-> 0, button |-> 0]

InitCommon ==
  /\ mouseDown = FALSE
  /\ event = NoEvent
  /\ pc = "idle"
  /\ frame = 0
  /\ xs = Identity
  /\ ri = 1
  /\ ci = 1
  /\ drop = ZeroDrop
  /\ moves = ZeroMoves
  /\ listener = "none"
  /\ gate = "none"
  /\ ev = [kind |-> "init"]
  /\ touched = {}
  /\ panicked = FALSE
  /\ ticks = 0
  /\ paints = 0

Floor == {c \in Cells : c[2] = HEIGHT - 1}

\* Grids painting can leave behind: at most MaxSand grains anywhere, or a full
\* bottom row with fewer than MaxSand grains above it.
StepGrids ==
  {GridOf(S) : S \in {T \in SUBSET Cells : Cardinality(T) <= MaxSand}} \cup
  {GridOf(Floor \cup S) : S \in {T \in SUBSET (Cells \ Floor) : Cardinality(T) < MaxSand}}

InitStep ==
  /\ grid \in StepGrids
  /\ start = grid
  /\ InitCommon

NextStep ==
  \/ StepCall /\ UNCHANGED <<ticks, paints>>
  \/ ShuffleRow /\ UNCHANGED <<ticks, paints>>
  \/ ProcessCell /\ UNCHANGED <<ticks, paints>>
  \/ StepReturn /\ UNCHANGED <<ticks, paints>>

\* step() on every grid of StepGrids, frame after frame, with no painting.
SpecStep == InitStep /\ [][NextStep]_vars

\* A single grain at (x, 0), x any column, in an otherwise empty grid.
InitFall ==
  /\ grid \in {GridOf({<<x, 0>>}) : x \in Cols}
  /\ start = grid
  /\ InitCommon

NextFall ==
  \/ StepCall /\ UNCHANGED <<ticks, paints>>
  \/ ShuffleRow /\ UNCHANGED <<ticks, paints>>
  \/ ProcessCell /\ UNCHANGED <<ticks, paints>>
  \/ StepReturn /\ ticks' = Min(ticks + 1, MaxTicks) /\ UNCHANGED paints

\* Successive step() calls on the single grain, counted by ticks.
SpecFall == InitFall /\ [][NextFall]_vars

\* Grids with at most one Sand cell and grids with at most one Empty cell: every
\* cell holds either value, inside and outside a disc.
PaintGrids == UNION {{GridOf(S), GridOf(Cells \ S)} : S \in {{}} \cup {{c} : c \in Cells}}

InitPaint ==
  /\ grid \in PaintGrids
  /\ start = grid
  /\ mouseDown = FALSE
  /\ event \in Events
  /\ pc = "idle"
  /\ frame = 0
  /\ xs = Identity
  /\ ri = 1
  /\ ci = 1
  /\ drop = ZeroDrop
  /\ moves = ZeroMoves
  /\ listener = "none"
  /\ gate = "none"
  /\ ev = [kind |-> "init"]
  /\ touched = {}
  /\ panicked = FALSE
  /\ ticks = 0
  /\ paints = 0

CountPaint ==
  /\ paints' = IF ev'.kind = "paint" THEN Min(paints + 1, MaxPaints) ELSE paints
  /\ UNCHANGED ticks

NextPaint ==
  \/ MouseDown /\ CountPaint
  \/ MouseMove /\ CountPaint
  \/ MouseUp /\ CountPaint
  \/ MouseLeave /\ CountPaint

\* The pointer listeners on one event (pointer, buttons, brush) and one grid.
SpecPaint == InitPaint /\ [][NextPaint]_vars

\* Deposits at one drop column: the pointer inside a cell of row 0 or 1, the
\* primary button, a brush that paints something.
PileEvents ==
  {e \in Events :
     /\ e.px >= 0
     /\ e.py \in {1, CELL_SIZE + 1}
     /\ e.brush >= 2
     /\ ToolOf(e) = "Sand"}

InitPile ==
  /\ grid = EmptyGrid
  /\ start = grid
  /\ mouseDown = FALSE
  /\ event \in PileEvents
  /\ pc = "idle"
  /\ frame = 0
  /\ xs = Identity
  /\ ri = 1
  /\ ci = 1
  /\ drop = ZeroDrop
  /\ moves = ZeroMoves
  /\ listener = "none"
  /\ gate = "none"
  /\ ev = [kind |-> "init"]
  /\ touched = {}
  /\ panicked = FALSE
  /\ ticks = 0
  /\ paints = 0

\* The frame callback, from its first step() to render().
FrameSteps ==
  \/ Frame /\ UNCHANGED <<ticks, paints>>
  \/ ShuffleRow /\ UNCHANGED <<ticks, paints>>
  \/ ProcessCell /\ UNCHANGED <<ticks, paints>>
  \/ SecondStep /\ UNCHANGED <<ticks, paints>>
  \/ Render /\ UNCHANGED <<ticks, paints>>

NextPile ==
  \/ paints < MaxPaints /\ MouseDown /\ CountPaint
  \/ MouseUp /\ CountPaint
  \/ FrameSteps

\* At most MaxPaints deposits at one place of an empty grid, between frames; then
\* frames only.  request_animation_frame re-arms the callback in every frame, so
\* frames keep coming: weak fairness of the callback's steps.
SpecPile == InitPile /\ [][NextPile]_vars /\ WF_vars(FrameSteps)

\* The host inputs of the program specification: the pointer in column 1 of row 0;
\* brush 2; primary or secondary button.
ProgramEvents ==
  {e \in Events :
     /\ e.px = CELL_SIZE + 1
     /\ e.py = 1
     /\ e.brush = 2
     /\ e.buttons # e.button + 2}

\* The state start() leaves: World::new(), MOUSE_DOWN false, the listeners and the
\* first animation frame registered.
Init ==
  /\ grid = EmptyGrid
  /\ start = grid
  /\ InitCommon

Next ==
  \/ HostInput(ProgramEvents) /\ UNCHANGED <<ticks, paints>>
  \/ paints < MaxPaints /\ MouseDown /\ CountPaint
  \/ paints < MaxPaints /\ MouseMove /\ CountPaint
  \/ MouseUp /\ CountPaint
  \/ MouseLeave /\ CountPaint
  \/ FrameSteps

\* The program: pointer events (at most MaxPaints paints) between frame callbacks.
Spec == Init /\ [][Next]_vars

\* ------------------------------------------------------------ claims
\* Cells the running step() call has yet to examine.
Pending ==
  {c \in Cells :
     /\ pc \in {"shuffle", "cells"}
     /\ \/ \E k \in (ri + 1) .. (HEIGHT - 1) : c[2] = Rows[k]
        \/ /\ c[2] = Rows[ri]
           /\ pc = "shuffle" \/ \E k \in ci .. WIDTH : xs[k] = c[1]}

BottomOnly(g) == \A c \in SandCells(g) : c[2] = HEIGHT - 1

\* C1: mass conservation.  No transition of step() changes the number of Sand
\* cells, whatever the column order and the draws, so the count after any number
\* of step() calls equals the count before.
C1_MassConserved == [][SandCount(grid') = SandCount(grid)]_vars

C1_Witness ==
  /\ pc = "returned"
  /\ grid # start
  /\ SandCount(grid) = MaxSand
  /\ SandCount(start) = MaxSand

\* C2: a grain moved down in a step() call is not examined again in that call (no
\* cell still to be examined holds a grain that has descended), and no grain is
\* more than one row below where it was at the entry of the call.
C2_NoSecondFall ==
  /\ \A c \in Pending : drop[c] = 0
  /\ \A c \in Cells : drop[c] <= 1

C2_Witness ==
  /\ pc = "cells"
  /\ \E c \in Cells : drop[c] = 1
  /\ \E c \in Pending : At(grid, c) = "Sand"

\* C3: from a single grain at (x, 0), after k step() calls the only Sand cell is
\* (x, min(k, HEIGHT-1)): each call moves it one row down in its column until the
\* bottom row, and every further call leaves the grid unchanged.
C3_SingleFall ==
  /\ pc = "idle" =>
       \E x \in Cols : SandCells(grid) = {<<x, Min(ticks, HEIGHT - 1)>>}
  /\ pc = "returned" =>
       \E x \in Cols : /\ SandCells(start) = {<<x, Min(ticks, HEIGHT - 1)>>}
                       /\ SandCells(grid) = {<<x, Min(ticks + 1, HEIGHT - 1)>>}

C3_Witness ==
  /\ pc = "idle"
  /\ ticks = HEIGHT
  /\ SandCells(grid) = {<<WIDTH - 1, HEIGHT - 1>>}

\* C4: a grid whose Sand cells all lie in the bottom row is a fixed point of
\* step(): the call completes and no cell changes, whatever subset of the bottom
\* row is Sand.
C4_BottomRowFixed == BottomOnly(start) => (grid = start /\ ~panicked)

C4_Witness ==
  /\ pc = "returned"
  /\ SandCells(start) = Floor
  /\ grid = start

\* C9: every cell step() indexes is inside the grid; a diagonal or lateral
\* candidate outside the grid is skipped.
C9_StepInBounds == ~panicked /\ touched \subseteq Cells

C9_Witness ==
  /\ ev.kind = "roll"
  /\ ev.x = 0
  /\ \E x \in Cols : At(grid, <<x, 0>>) = "Sand"
  /\ \E x \in Cols : At(grid, <<x, HEIGHT - 1>>) = "Sand"
  /\ ~panicked

\* The in-bounds cells of the disc as the claim states it: offsets within
\* -brush .. brush with (2dx+1)^2 + (2dy+1)^2 <= brush^2.
ClaimDisc(x, y, brush) ==
  {c \in Cells :
     LET dx == c[1] - x
         dy == c[2] - y
     IN  /\ -brush <= dx /\ dx <= brush
         /\ -brush <= dy /\ dy <= brush
         /\ (2 * dx + 1) * (2 * dx + 1) + (2 * dy + 1) * (2 * dy + 1) <= brush * brush}

\* The offsets of the brush of size 4, cell by cell: the block -2 .. 1 squared
\* without its four corners.
Disc4 ==
  {<<-1, -2>>, <<0, -2>>,
   <<-2, -1>>, <<-1, -1>>, <<0, -1>>, <<1, -1>>,
   <<-2, 0>>, <<-1, 0>>, <<0, 0>>, <<1, 0>>,
   <<-1, 1>>, <<0, 1>>}

\* The four corner cells of the bounding box [x-brush, x+brush] x [y-brush, y+brush].
BoxCorners(x, y, brush) ==
  {<<x - brush, y - brush>>, <<x + brush, y - brush>>,
   <<x - brush, y + brush>>, <<x + brush, y + brush>>}

\* C5: paint writes exactly the in-bounds cells of the disc; for brush 4 these are
\* the cells at the twelve offsets of Disc4 (all within distance 2 of the centre),
\* the corners of the bounding box are not written, and on an empty grid a deposit
\* leaves exactly the disc cells Sand.
C5_DiscMembership ==
  [][ev'.kind = "paint" =>
       LET D == ClaimDisc(ev'.x, ev'.y, ev'.brush)
       IN  /\ touched' = D
           /\ D \cap BoxCorners(ev'.x, ev'.y, ev'.brush) = {}
           /\ ev'.brush = 4 =>
                /\ D = {c \in Cells : <<c[1] - ev'.x, c[2] - ev'.y>> \in Disc4}
                /\ \A c \in touched' : /\ ev'.x - 2 <= c[1] /\ c[1] < ev'.x + 2
                                      /\ ev'.y - 2 <= c[2] /\ c[2] < ev'.y + 2
           /\ (grid = EmptyGrid /\ ev'.tool = "Sand") => SandCells(grid') = D]_vars

C5_Witness ==
  /\ ev.kind = "paint"
  /\ ev.brush = 4
  /\ ev.tool = "Sand"
  /\ ev.x = 2
  /\ ev.y = 2
  /\ SandCells(grid) = {<<0, 1>>, <<1, 0>>, <<1, 1>>, <<1, 2>>, <<2, 1>>, <<2, 2>>,
                        <<0, 2>>, <<2, 0>>}

\* C6: after paint every in-bounds disc cell holds Sand (tool Sand) or Empty (tool
\* Erase), and every other cell holds the value it held before the call.
C6_PaintFrame ==
  [][ev'.kind = "paint" =>
       \A c \in Cells :
         At(grid', c) = IF c \in ClaimDisc(ev'.x, ev'.y, ev'.brush)
                          THEN (IF ev'.tool = "Sand" THEN "Sand" ELSE "Empty")
                          ELSE At(grid, c)]_vars

C6_Witness ==
  /\ ev.kind = "paint"
  /\ ev.tool = "Erase"
  /\ touched # {}
  /\ SandCells(grid) # {}
  /\ \A c \in touched : At(grid, c) = "Empty"

\* C7: a paint call that repeats the arguments of the paint call before it leaves
\* the grid as the first call left it, for deposit and for erase.
C7_PaintIdempotent ==
  [][(ev.kind = "paint" /\ ev' = ev) => grid' = grid]_vars

C7_Witness ==
  /\ ev.kind = "paint"
  /\ ev.tool = "Erase"
  /\ paints = 2
  /\ touched # {}

\* C8: paint_at_mouse never faults: whatever the pointer position (left of or above
\* the canvas, at or beyond the grid's width or height) and the brush size, only
\* cells inside the grid are indexed, and the part of the disc inside the grid is
\* painted.
C8_PaintInBounds ==
  /\ ~panicked
  /\ touched \subseteq Cells
  /\ ev.kind = "paint" => ClaimDisc(ev.x, ev.y, ev.brush) \subseteq touched

C8_Witness ==
  /\ ev.kind = "paint"
  /\ event.px = -5
  /\ GridCoord(event.py) >= HEIGHT
  /\ touched # {}
  /\ ~panicked

\* C10: after the deposits at one column have stopped, the grid eventually reaches
\* a settled state: from some point on every step() call returns with the grid as
\* it was at the call's entry.
C10_StablePile == <>[](pc = "returned" => grid = start)

\* C11: within one step() call each grain is moved at most once: a grain that has
\* made a move (a fall, a diagonal move or a lateral roll) makes no second one.
C11_MovedAtMostOnce == \A c \in Cells : moves[c] <= 1

\* The cell the next iteration of `for &x in &xs` processes.
Current == <<xs[ci], Rows[ri]>>

\* The Sand cells a transition empties, and the Empty cells it fills.
Gone == SandCells(grid) \ SandCells(grid')

Came == SandCells(grid') \ SandCells(grid)

\* The two diagonal-below cells of c.
DiagBelow(c) == {<<c[1] - 1, c[2] + 1>>, <<c[1] + 1, c[2] + 1>>}

\* c is occupied or outside the grid.
Blocked(g, c) == At(g, c) # "Empty"

\* C12: a grain moves to a same-row neighbour only when the cell below it is
\* occupied and each diagonal-below cell is occupied or outside the grid; a grain
\* with an Empty cell below or an in-bounds Empty diagonal-below cell never moves
\* laterally.
C12_RollOnlyBlocked ==
  [][\A f \in Gone : \A t \in Came :
       t[2] = f[2] =>
         /\ At(grid, <<f[1], f[2] + 1>>) = "Sand"
         /\ \A d \in DiagBelow(f) : Blocked(grid, d)]_vars

C12_Witness ==
  /\ ev.kind = "roll"
  /\ ev.x = 1
  /\ ev.y = HEIGHT - 2
  /\ Floor \subseteq SandCells(grid)
  /\ At(grid, ev.dest) = "Sand"

\* C13: when step() processes a Sand cell (x, y) whose cell below is Empty, the
\* grain moves to (x, y+1), (x, y) becomes Empty, no other cell changes, and no
\* diagonal or lateral candidate is examined.
C13_DownFirst ==
  [][(pc = "cells" /\ At(grid, Current) = "Sand"
        /\ At(grid, <<Current[1], Current[2] + 1>>) = "Empty") =>
       /\ grid' = GridOf((SandCells(grid) \ {Current}) \cup {<<Current[1], Current[2] + 1>>})
       /\ touched' = {Current, <<Current[1], Current[2] + 1>>}]_vars

C13_Witness ==
  /\ ev.kind = "down"
  /\ At(grid, <<ev.x, ev.y>>) = "Empty"
  /\ At(grid, ev.dest) = "Sand"
  /\ \A d \in DiagBelow(<<ev.x, ev.y>>) : At(grid, d) = "Empty"

\* C14: when step() processes a Sand cell whose cell below is occupied and which
\* has an in-bounds Empty diagonal-below cell, the grain moves to an Empty
\* diagonal-below cell; a processed grain remains in place only if the cell below
\* and both diagonal-below cells are occupied or outside the grid.
C14_StayOnlyBlocked ==
  [][(pc = "cells" /\ At(grid, Current) = "Sand") =>
       LET below == <<Current[1], Current[2] + 1>>
           free == {d \in DiagBelow(Current) : At(grid, d) = "Empty"}
       IN  /\ (Blocked(grid, below) /\ free # {}) =>
                \E d \in free : grid' = GridOf((SandCells(grid) \ {Current}) \cup {d})
           /\ grid' = grid => (Blocked(grid, below) /\ free = {})]_vars

C14_Witness ==
  /\ ev.kind = "diag"
  /\ ev.dest = <<ev.x + 1, ev.y + 1>>
  /\ At(grid, <<ev.x - 1, ev.y + 1>>) = "Sand"
  /\ At(grid, <<ev.x, ev.y + 1>>) = "Sand"
  /\ At(grid, <<ev.x, ev.y>>) = "Empty"

\* C15: in every row of every step() call the index buffer xs is a permutation of
\* 0 .. WIDTH-1 (every swap index lies in 0 .. i), so the columns already visited
\* and the columns still to visit are disjoint and together are all the columns,
\* although each row shuffles the buffer the row before left.
C15_ColumnPermutation ==
  /\ \A i \in 1 .. (WIDTH - 1) : RandomIndex(i) \subseteq 0 .. i
  /\ DOMAIN xs = 1 .. WIDTH
  /\ {xs[k] : k \in 1 .. WIDTH} = Cols
  /\ pc = "cells" =>
       /\ {xs[k] : k \in 1 .. (ci - 1)} \cap {xs[k] : k \in ci .. WIDTH} = {}
       /\ Cardinality({xs[k] : k \in 1 .. (ci - 1)}) = ci - 1

C15_Witness ==
  /\ pc = "cells"
  /\ ri = HEIGHT - 1
  /\ ci = WIDTH
  /\ xs[1] = WIDTH - 1
  /\ xs[WIDTH] = 0
  /\ grid # start

\* The sum of the row indices of the cells of the set S that lie in rows 0 .. y.
RECURSIVE RowSumTo(_, _)
RowSumTo(S, y) ==
  IF y < 0 THEN 0
  ELSE y * Cardinality({c \in S : c[2] = y}) + RowSumTo(S, y - 1)

\* The sum of the row indices of the Sand cells of g.
RowSum(g) == RowSumTo(SandCells(g), HEIGHT - 1)

\* C18: every move of step() takes one grain from (x, y) to a cell (x', y') with
\* y' in {y, y+1} and |x' - x| <= 1; the sum of the row indices of the Sand cells
\* never decreases; a Sand cell of the bottom row is never emptied.
C18_NeverRises ==
  [][grid' # grid =>
       LET from == Gone
           to == Came
       IN  /\ Cardinality(from) = 1
           /\ Cardinality(to) = 1
           /\ \A f \in from : \A t \in to :
                /\ t[2] \in {f[2], f[2] + 1}
                /\ t[1] - f[1] \in {-1, 0, 1}
           /\ RowSum(grid') >= RowSum(grid)
           /\ from \cap Floor = {}]_vars

C18_Witness ==
  /\ pc = "returned"
  /\ RowSum(grid) > RowSum(start)
  /\ Floor \subseteq SandCells(start)
  /\ \E c \in SandCells(start) \ Floor : c \notin SandCells(grid)

\* C16: every mousedown paints, and a mousemove paints exactly when the last of
\* mousedown, mouseup and mouseleave before it was a mousedown: after a mouseup or
\* a mouseleave (and before the first mousedown) no mousemove paints.
C16_PointerGating ==
  [][ev'.kind \in {"paint", "ignored"} =>
       /\ listener' \in {"mousedown", "mousemove"}
       /\ listener' = "mousedown" => ev'.kind = "paint"
       /\ listener' = "mousemove" => (ev'.kind = "paint" <=> gate = "mousedown")]_vars

C16_Witness ==
  /\ listener = "mousemove"
  /\ ev.kind = "ignored"
  /\ gate = "mouseleave"
  /\ paints = MaxPaints

\* C17: every frame callback is step(), step(), render() in this order with
\* nothing in between: the callback starts with the first step(), the return of
\* the first step() is followed by the second, the return of the second by
\* render(), which leaves the grid unchanged and ends the callback; no listener
\* runs and no paint is made while a callback is running.
C17_FrameAtomic ==
  [][/\ (pc = "idle" /\ pc' # "idle") => (ev'.kind = "enter" /\ frame' = 1)
     /\ (pc = "returned" /\ frame = 1) =>
          (ev'.kind = "enter" /\ frame' = 2 /\ grid' = grid)
     /\ (pc = "returned" /\ frame = 2) =>
          (ev'.kind = "render" /\ frame' = 0 /\ pc' = "idle" /\ grid' = grid)
     /\ ev'.kind = "render" => (pc = "returned" /\ frame = 2)
     /\ pc \in {"shuffle", "cells"} => frame' = frame
     /\ pc # "idle" =>
          /\ ev'.kind \notin {"paint", "ignored", "up", "leave", "input"}
          /\ mouseDown' = mouseDown
          /\ listener' = listener
          /\ paints' = paints]_vars

C17_Witness ==
  /\ ev.kind = "render"
  /\ mouseDown
  /\ listener = "mousemove"
  /\ paints = MaxPaints
  /\ SandCells(grid) # {}
  /\ BottomOnly(grid)

\* C19: paint with brush 0 or 1 writes no cell and leaves the grid unchanged,
\* whatever the centre and the tool; with brush >= 2 an in-bounds centre cell is
\* written and holds the tool's value afterwards.
C19_SmallBrush ==
  [][ev'.kind = "paint" =>
       /\ ev'.brush \in {0, 1} => (touched' = {} /\ grid' = grid)
       /\ (ev'.brush >= 2 /\ <<ev'.x, ev'.y>> \in Cells) =>
            /\ <<ev'.x, ev'.y>> \in touched'
            /\ At(grid', <<ev'.x, ev'.y>>) = IF ev'.tool = "Sand" THEN "Sand" ELSE "Empty"]_vars

C19_Witness ==
  /\ ev.kind = "paint"
  /\ ev.brush = 1
  /\ ev.tool = "Erase"
  /\ At(grid, <<ev.x, ev.y>>) = "Sand"
  /\ touched = {}

====
